---- MODULE Spec2Model ----
(***************************************************************************)
(* Model of app.py: the point ledger (records table), the roster, the      *)
(* month locks and the settings page handlers of the Streamlit script.     *)
(*                                                                         *)
(* Text values (TEXT columns, CSV cells) are sequences of one-character    *)
(* strings, so that formatting, parsing and SQLite's byte-wise text        *)
(* comparison are computed and not assumed.  Points are REAL in the code;  *)
(* the model uses integer-valued points.                                   *)
(***************************************************************************)
EXTENDS Integers, Sequences, FiniteSets, TLC

VARIABLES
    roster,        \* rows of table roster: [emp_id, name, grp]
    records,       \* rows of table records: [id, d, emp_id, grp, points, shift, memo]
    nextId,        \* next AUTOINCREMENT id of table records
    locks,         \* rows of table locks: the 'YYYY-MM' keys
    today,         \* date.today()
    admin_ok,      \* st.session_state["admin_ok"]
    confirm_wipe,  \* st.session_state["confirm_wipe"]
    records_work,  \* st.session_state["records_work"] (the data editor's table)
    pending,       \* an add_record call between its statements: [pc, d, emp_id, ...]
    backup,        \* the rows in data/latest_backup.csv, or NoFile
    store_ok,      \* st.session_state["store_ok"]
    writers,       \* the add_record calls of concurrent script runs, by handler
    last           \* history: the last handler that ran, its inputs and outcome

vars == <<roster, records, nextId, locks, today, admin_ok, confirm_wipe,
          records_work, pending, backup, store_ok, writers, last>>

-----------------------------------------------------------------------------
(* Bounds of the model *)

\* ids handed out by AUTOINCREMENT to add_record over one behaviour
MaxId == 2

\* ids handed out by AUTOINCREMENT to a restore over one behaviour
MaxRestoreId == 3

-----------------------------------------------------------------------------
(* Text, numbers and dates *)

Digits == <<"0", "1", "2", "3", "4", "5", "6", "7", "8", "9">>

IsDigit(c) == \E i \in 1..Len(Digits) : Digits[i] = c

DigitVal(c) == (CHOOSE i \in 1..Len(Digits) : Digits[i] = c) - 1

\* byte value of a character (SQLite compares TEXT with memcmp)
Ord(c) ==
    CASE c = " " -> 32
      [] c = "-" -> 45
      [] c = "." -> 46
      [] IsDigit(c) -> 48 + DigitVal(c)
      [] c = "A" -> 65
      [] c = "B" -> 66
      [] c = "a" -> 97
      [] c = "m" -> 109
      [] c = "n" -> 110
      [] c = "x" -> 120
      [] OTHER -> 127

RECURSIVE StrLess(_, _)
\* a < b for TEXT values under the BINARY collation
StrLess(a, b) ==
    IF Len(b) = 0 THEN FALSE
    ELSE IF Len(a) = 0 THEN TRUE
    ELSE IF a[1] = b[1] THEN StrLess(Tail(a), Tail(b))
    ELSE Ord(a[1]) < Ord(b[1])

RECURSIVE FormatNat(_)
FormatNat(n) ==
    IF n < 10 THEN <<Digits[n + 1]>>
    ELSE FormatNat(n \div 10) \o <<Digits[(n % 10) + 1]>>

RECURSIVE ZeroPad(_, _)
\* the :04d / :02d of an f-string and of date.isoformat()
ZeroPad(s, w) == IF Len(s) >= w THEN s ELSE ZeroPad(<<"0">> \o s, w)

AllDigits(s) == Len(s) > 0 /\ \A i \in 1..Len(s) : IsDigit(s[i])

RECURSIVE ParseNat(_)
ParseNat(s) ==
    IF Len(s) = 0 THEN 0
    ELSE 10 * ParseNat(SubSeq(s, 1, Len(s) - 1)) + DigitVal(s[Len(s)])

Date(y, m, d) == [year |-> y, month |-> m, day |-> d]

\* datetime.date.isoformat(): 'YYYY-MM-DD'
isoformat(dt) ==
    ZeroPad(FormatNat(dt.year), 4) \o <<"-">> \o ZeroPad(FormatNat(dt.month), 2)
        \o <<"-">> \o ZeroPad(FormatNat(dt.day), 2)

\* f"{dt.year:04d}-{dt.month:02d}"
ym_of(dt) ==
    ZeroPad(FormatNat(dt.year), 4) \o <<"-">> \o ZeroPad(FormatNat(dt.month), 2)

\* pd.to_datetime(s).date() of a 'Y-M-D' text; the month and the day are read
\* with or without a leading zero
to_date(s) ==
    LET i == CHOOSE k \in 1..Len(s) : s[k] = "-" /\ \A n \in 1..(k - 1) : s[n] # "-"
        j == CHOOSE k \in (i + 1)..Len(s) :
                s[k] = "-" /\ \A n \in (i + 1)..(k - 1) : s[n] # "-"
    IN  Date(ParseNat(SubSeq(s, 1, i - 1)), ParseNat(SubSeq(s, i + 1, j - 1)),
             ParseNat(SubSeq(s, j + 1, Len(s))))

\* dt1 < dt2 for datetime.date values
DateLess(a, b) ==
    \/ a.year < b.year
    \/ a.year = b.year /\ a.month < b.month
    \/ a.year = b.year /\ a.month = b.month /\ a.day < b.day

IsLeap(y) == (y % 4 = 0 /\ y % 100 # 0) \/ y % 400 = 0

DaysInMonth(y, m) ==
    IF m = 2 THEN (IF IsLeap(y) THEN 29 ELSE 28)
    ELSE IF m \in {4, 6, 9, 11} THEN 30 ELSE 31

\* datetime.date.toordinal(): 0001-01-01 is day 1
RECURSIVE DaysBeforeMonth(_, _)
DaysBeforeMonth(y, m) ==
    IF m = 1 THEN 0 ELSE DaysBeforeMonth(y, m - 1) + DaysInMonth(y, m - 1)

toordinal(dt) ==
    LET y == dt.year - 1
    IN  y * 365 + (y \div 4) - (y \div 100) + (y \div 400)
            + DaysBeforeMonth(dt.year, dt.month) + dt.day

\* datetime.date.weekday(): Monday is 0
weekday(dt) == (toordinal(dt) + 6) % 7

\* dt + timedelta(days=n) and dt - timedelta(days=n), one day at a time
RECURSIVE plus_days(_, _)
plus_days(dt, n) ==
    IF n = 0 THEN dt
    ELSE IF dt.day < DaysInMonth(dt.year, dt.month)
    THEN plus_days(Date(dt.year, dt.month, dt.day + 1), n - 1)
    ELSE IF dt.month < 12 THEN plus_days(Date(dt.year, dt.month + 1, 1), n - 1)
    ELSE plus_days(Date(dt.year + 1, 1, 1), n - 1)

RECURSIVE minus_days(_, _)
minus_days(dt, n) ==
    IF n = 0 THEN dt
    ELSE IF dt.day > 1 THEN minus_days(Date(dt.year, dt.month, dt.day - 1), n - 1)
    ELSE IF dt.month > 1
    THEN minus_days(Date(dt.year, dt.month - 1, DaysInMonth(dt.year, dt.month - 1)),
                    n - 1)
    ELSE minus_days(Date(dt.year - 1, 12, 31), n - 1)

\* str.strip()
RECURSIVE strip(_)
strip(s) ==
    IF Len(s) = 0 THEN s
    ELSE IF s[1] = " " THEN strip(Tail(s))
    ELSE IF s[Len(s)] = " " THEN strip(SubSeq(s, 1, Len(s) - 1))
    ELSE s

\* SQL NULL / Python None / pandas NaN in a text column
Null == <<"NULL">>

Empty == <<>>

-----------------------------------------------------------------------------
(* Numbers in CSV cells *)

FormatInt(n) == IF n < 0 THEN <<"-">> \o FormatNat(-n) ELSE FormatNat(n)

\* repr() of an integer-valued float, as DataFrame.to_csv writes a REAL and as
\* SQLite renders a REAL stored into a TEXT column
FormatFloat(v) == FormatInt(v) \o <<".", "0">>

IsIntText(s) ==
    \/ AllDigits(s)
    \/ Len(s) > 1 /\ s[1] = "-" /\ AllDigits(Tail(s))

IntOfText(s) == IF s[1] = "-" THEN -ParseNat(Tail(s)) ELSE ParseNat(s)

\* a decimal literal whose fraction is zero (the model holds integer-valued
\* points only)
IsFloatText(s) ==
    \E k \in 2..(Len(s) - 1) :
        /\ s[k] = "."
        /\ IsIntText(SubSeq(s, 1, k - 1))
        /\ \A i \in (k + 1)..Len(s) : s[i] = "0"

FloatOfText(s) ==
    IntOfText(SubSeq(s, 1, (CHOOSE k \in 2..(Len(s) - 1) : s[k] = ".") - 1))

IsNumText(s) == IsIntText(s) \/ IsFloatText(s)

NumOfText(s) == IF IsIntText(s) THEN IntOfText(s) ELSE FloatOfText(s)

-----------------------------------------------------------------------------
(* Input domains *)

Dates == {Date(2024, 12, 31), Date(2025, 1, 1)}

EmpIds == {<<"0", "7">>, <<"a">>}

PointInputs == {-1, 0, 1}

\* what is typed into the add_member_form: (社員ID, 名前, グループ)
MemberInputs ==
    { <<<<"0", "7">>, <<"n">>, <<"A">>>>,
      <<<<"a", " ">>, <<"m">>, <<"B">>>>,
      <<<<"a">>, <<"n">>, <<"B">>>>,
      <<<<"0", "7">>, <<"m">>, <<"B">>>>,
      <<<<" ">>, <<"m">>, <<"A">>>> }

\* os.getenv("ADMIN_PIN", "329865")
ADMIN_PIN == <<"3", "2", "9", "8", "6", "5">>

PinInputs == {ADMIN_PIN, <<"3", "2", "9", "8", "6">>, Empty}

\* os.getenv("STORE_PASS", "000113")
STORE_PASS == <<"0", "0", "0", "1", "1", "3">>

\* the radio button 期間
Presets == {"today", "this_week", "this_month", "last_month", "custom"}

\* a roster two add_member_form submissions leave in the database
Roster0 ==
    { [emp_id |-> <<"0", "7">>, name |-> <<"n">>, grp |-> <<"A">>],
      [emp_id |-> <<"a">>, name |-> <<"m">>, grp |-> <<"B">>] }

-----------------------------------------------------------------------------
(* Tables *)

\* is_locked(dt)
is_locked(dt) == ym_of(dt) \in locks

\* get_roster_df().set_index("社員ID").index
RosterIds == {m.emp_id : m \in roster}

\* roster.loc[emp_id, "グループ"]
RosterGrp(emp_id) == (CHOOSE m \in roster : m.emp_id = emp_id).grp

\* query_range(start, end): WHERE d >= ? AND d < ? on the TEXT column d
query_range(start, end) ==
    LET lo == isoformat(start)
        hi == isoformat(end)
    IN  {r \in records : ~StrLess(r.d, lo) /\ StrLess(r.d, hi)}

\* the first day of the month after dt's month
NextMonthStart(dt) ==
    IF dt.month = 12 THEN Date(dt.year + 1, 1, 1) ELSE Date(dt.year, dt.month + 1, 1)

\* month_df(base_month)
month_df(base_month) ==
    query_range(Date(base_month.year, base_month.month, 1), NextMonthStart(base_month))

\* get_period's month_range with the month wrapped and the year kept
month_range_wrap(d) ==
    <<Date(d.year, d.month, 1), Date(d.year, (d.month % 12) + 1, 1)>>

\* get_period: month_range(d)
month_range(d) ==
    <<Date(d.year, d.month, 1),
      IF d.month = 12 THEN Date(d.year + 1, 1, 1) ELSE Date(d.year, d.month + 1, 1)>>

\* get_period: prev_month_range(d)
prev_month_range(d) ==
    <<IF d.month = 1 THEN Date(d.year - 1, 12, 1) ELSE Date(d.year, d.month - 1, 1),
      Date(d.year, d.month, 1)>>

\* get_period: week_range(d), weeks start on Monday
week_range(d) ==
    LET start == minus_days(d, weekday(d))
    IN  <<start, plus_days(start, 7)>>

\* get_period(preset); the presets 今日, 今週, 今月, 先月 are written
\* "today", "this_week", "this_month", "last_month"
get_period(preset) ==
    CASE preset = "today" -> <<today, plus_days(today, 1)>>
      [] preset = "this_week" -> week_range(today)
      [] preset = "this_month" -> month_range(today)
      [] preset = "last_month" -> prev_month_range(today)

\* the NOT NULL constraints alone
RowOk_unchecked(r) == r.d # Null /\ r.emp_id # Null /\ r.grp # Null

\* the row constraints of table records: NOT NULL and CHECK(points >= 0)
RowOk(r) ==
    r.d # Null /\ r.emp_id # Null /\ r.grp # Null /\ r.points >= 0

\* a table without the UNIQUE constraint
KeyFree_none(recs, r) == TRUE

\* UNIQUE(d, emp_id) for row r among recs
KeyFree(recs, r) ==
    \A q \in recs : q.id = r.id \/ ~(q.d = r.d /\ q.emp_id = r.emp_id)

\* the orders in which a set of rows can be iterated
Orders(S) ==
    {f \in [1..Cardinality(S) -> S] : \A i, j \in 1..Cardinality(S) : f[i] = f[j] => i = j}

\* the sum of column points over a set of rows
RECURSIVE SumPoints(_)
SumPoints(S) ==
    IF S = {} THEN 0
    ELSE LET r == CHOOSE x \in S : TRUE IN r.points + SumPoints(S \ {r})

\* team_totals sorted the other way
team_totals_ascending(df_range) ==
    LET groups == {[team |-> g, total |-> SumPoints({r \in df_range : r.grp = g})] :
                        g \in {r.grp : r \in df_range} \ {Null}}
    IN  {[i \in 1..Len(s) |-> [rank |-> i, team |-> s[i].team, total |-> s[i].total]] :
            s \in {o \in Orders(groups) :
                        \A i, j \in 1..Len(o) : i < j => o[i].total <= o[j].total}}

\* team_totals: groupby(チーム).sum() of the points (groupby drops a missing
\* key), sort_values(ascending=False), then the rank column 1..n. The sort is
\* not stable, so teams with equal totals come in any order: the set of the
\* tables the page can show
team_totals(df_range) ==
    LET groups == {[team |-> g, total |-> SumPoints({r \in df_range : r.grp = g})] :
                        g \in {r.grp : r \in df_range} \ {Null}}
    IN  {[i \in 1..Len(s) |-> [rank |-> i, team |-> s[i].team, total |-> s[i].total]] :
            s \in {o \in Orders(groups) :
                        \A i, j \in 1..Len(o) : i < j => o[i].total >= o[j].total}}

\* df_range["emp_id"].map(roster["名前"]): the name, NaN for an id the roster
\* does not hold
RosterName(emp_id) ==
    IF emp_id \in RosterIds THEN (CHOOSE m \in roster : m.emp_id = emp_id).name
    ELSE Null

\* per_person: groupby([チーム, emp_id, 名前]).sum() of the points; groupby
\* drops the rows in which a key is missing
per_person(df_range) ==
    LET keyed == {r \in df_range : r.grp # Null /\ r.emp_id # Null
                                    /\ RosterName(r.emp_id) # Null}
    IN  {[team |-> r.grp, emp_id |-> r.emp_id, name |-> RosterName(r.emp_id),
          total |-> SumPoints({q \in keyed : q.grp = r.grp /\ q.emp_id = r.emp_id})] :
            r \in keyed}

\* sort_values(個人合計, ascending=False).head(3) of one team's rows: the
\* lists the page can show (the sort is not stable)
top3(pp, team_name) ==
    LET sub == {p \in pp : p.team = team_name}
        n == IF Cardinality(sub) < 3 THEN Cardinality(sub) ELSE 3
    IN  {SubSeq(o, 1, n) :
            o \in {s \in Orders(sub) :
                        \A i, j \in 1..Len(s) : i < j => s[i].total >= s[j].total}}

-----------------------------------------------------------------------------
(* The settings page down to the data editor: the work table is loaded once *)
(* per session, from this month's records                                  *)

\* edit_df: the columns the handlers read (名前 is display only)
edit_df(rec_m) ==
    {[id |-> r.id, date |-> to_date(r.d), emp_id |-> r.emp_id, grp |-> r.grp,
      points |-> r.points] : r \in rec_m}

NoWork == [loaded |-> FALSE, rows |-> {}]

\* no add_record call is between its statements
Idle == [pc |-> "idle"]

\* the script runs that call add_record at the same time
Handlers == {"s1", "s2"}

\* data/latest_backup.csv does not exist
NoFile == [exists |-> FALSE, rows |-> {}]

\* st.session_state["records_work"] after the script ran down to st.data_editor
Work0 ==
    IF ~records_work.loaded /\ month_df(today) # {}
    THEN [loaded |-> TRUE, rows |-> edit_df(month_df(today))]
    ELSE records_work

-----------------------------------------------------------------------------
(* add_record *)

\* add_record without its month lock check
add_record_unlocked(d, emp_id, points) ==
    IF emp_id \notin RosterIds
    THEN [ret |-> "False", msg |-> "unknown", recs |-> records, next |-> nextId]
    ELSE [ret |-> "True", msg |-> "created",
          recs |-> {r \in records : ~(r.d = isoformat(d) /\ r.emp_id = emp_id)} \cup
              {[id |-> nextId, d |-> isoformat(d), emp_id |-> emp_id,
                grp |-> RosterGrp(emp_id), points |-> points, shift |-> Empty,
                memo |-> Empty]},
          next |-> nextId + 1]

\* add_record without its roster check
add_record_anyone(d, emp_id, points) ==
    IF is_locked(d)
    THEN [ret |-> "False", msg |-> "locked", recs |-> records, next |-> nextId]
    ELSE [ret |-> "True", msg |-> "created",
          recs |-> {r \in records : ~(r.d = isoformat(d) /\ r.emp_id = emp_id)} \cup
              {[id |-> nextId, d |-> isoformat(d), emp_id |-> emp_id,
                grp |-> IF emp_id \in RosterIds THEN RosterGrp(emp_id) ELSE Empty,
                points |-> points, shift |-> Empty, memo |-> Empty]},
          next |-> nextId + 1]

\* add_record whose overwrite keeps the stored points
add_record_keep(d, emp_id, points) ==
    IF is_locked(d)
    THEN [ret |-> "False", msg |-> "locked", recs |-> records, next |-> nextId]
    ELSE IF emp_id \notin RosterIds
    THEN [ret |-> "False", msg |-> "unknown", recs |-> records, next |-> nextId]
    ELSE IF \E r \in records : r.d = isoformat(d) /\ r.emp_id = emp_id
    THEN [ret |-> "True", msg |-> "updated", recs |-> records, next |-> nextId]
    ELSE [ret |-> "True", msg |-> "created",
          recs |-> records \cup
              {[id |-> nextId, d |-> isoformat(d), emp_id |-> emp_id,
                grp |-> RosterGrp(emp_id), points |-> points, shift |-> Empty,
                memo |-> Empty]},
          next |-> nextId + 1]

\* auto_backup_latest() with table records holding recs; fails says whether
\* get_records_df or to_csv raises. The result is the file afterwards and
\* whether the call raised into its caller: except Exception: pass
auto_backup_latest_raising(recs, fails) ==
    [file |-> IF fails THEN backup ELSE [exists |-> TRUE, rows |-> recs], raised |-> fails]

auto_backup_latest(recs, fails) ==
    [file |-> IF fails THEN backup ELSE [exists |-> TRUE, rows |-> recs], raised |-> FALSE]

\* a script run: auto_backup_latest() at module level, then the page is drawn
PageLoad(fails) ==
    LET bk == auto_backup_latest(records, fails)
    IN  /\ backup' = bk.file
        /\ last' = [op |-> "page_load", ok |-> ~bk.raised]
        /\ UNCHANGED <<writers, store_ok, pending, roster, records, nextId, locks, today,
                       admin_ok, confirm_wipe, records_work>>

\* the second transaction of add_record: look the (d, emp_id) row up, then
\* UPDATE it or INSERT a new one, with the team read from the roster before
add_record_write(d, emp_id, grp, points) ==
    LET ds == isoformat(d)
        exists == {r \in records : r.d = ds /\ r.emp_id = emp_id}
    IN  IF ~RowOk([d |-> ds, emp_id |-> emp_id, grp |-> grp, points |-> points])
        THEN \* CHECK(points >= 0) fails: the with-block rolls back and re-raises
             [ret |-> "raise", msg |-> "check", recs |-> records, next |-> nextId]
        ELSE IF exists # {}
        THEN [ret |-> "True", msg |-> "updated",
              recs |-> {IF r \in exists THEN [r EXCEPT !.grp = grp, !.points = points]
                        ELSE r : r \in records},
              next |-> nextId]
        ELSE [ret |-> "True", msg |-> "created",
              recs |-> records \cup
                  {[id |-> nextId, d |-> ds, emp_id |-> emp_id, grp |-> grp,
                    points |-> points, shift |-> Empty, memo |-> Empty]},
              next |-> nextId + 1]

\* the outcome of add_record(d, emp_id, points): its return value (or "raise"),
\* the message shown, the table after it and the next id
add_record(d, emp_id, points) ==
    IF is_locked(d)
    THEN [ret |-> "False", msg |-> "locked", recs |-> records, next |-> nextId]
    ELSE IF emp_id \notin RosterIds
    THEN [ret |-> "False", msg |-> "unknown", recs |-> records, next |-> nextId]
    ELSE add_record_write(d, emp_id, RosterGrp(emp_id), points)

\* a call of add_record(d, emp_id, points)
AddRecord(d, emp_id, points) ==
    LET out == add_record(d, emp_id, points)
    IN  /\ (out.next = nextId \/ out.next <= MaxId + 1)
        /\ records' = out.recs
        /\ nextId' = out.next
        /\ last' = IF out.ret = "True"
                   THEN [op |-> "add_record", ret |-> out.ret, msg |-> out.msg,
                         d |-> d, emp_id |-> emp_id, points |-> points,
                         again |-> /\ last.op = "add_record"
                                   /\ last.ret = "True"
                                   /\ last.d = d
                                   /\ last.emp_id = emp_id
                                   /\ last.points # points,
                         locked |-> is_locked(d)]
                   ELSE [op |-> "add_record", ret |-> out.ret, msg |-> out.msg]
        /\ UNCHANGED <<writers, store_ok, backup, pending, roster, locks, today, admin_ok, confirm_wipe, records_work>>

\* add_record statement by statement, as it runs beside other sessions: each
\* get_conn() is a transaction of its own, and nothing joins the three.
\* First statement: if is_locked(d): return False
AddCheckLock(d, emp_id, points) ==
    /\ pending = Idle
    /\ IF is_locked(d)
       THEN /\ last' = [op |-> "add_record", ret |-> "False", msg |-> "locked"]
            /\ UNCHANGED pending
       ELSE /\ pending' = [pc |-> "roster", d |-> d, emp_id |-> emp_id,
                           points |-> points]
            /\ last' = [op |-> "add_record_is_locked"]
    /\ UNCHANGED <<writers, store_ok, backup, roster, records, nextId, locks, today, admin_ok, confirm_wipe,
                   records_work>>

\* Second statement: SELECT grp FROM roster WHERE emp_id=?; return False if none
AddReadRoster ==
    /\ pending # Idle
    /\ pending.pc = "roster"
    /\ IF pending.emp_id \notin RosterIds
       THEN /\ pending' = Idle
            /\ last' = [op |-> "add_record", ret |-> "False", msg |-> "unknown"]
       ELSE /\ pending' = [pc |-> "write", d |-> pending.d,
                           emp_id |-> pending.emp_id, points |-> pending.points,
                           grp |-> RosterGrp(pending.emp_id)]
            /\ last' = [op |-> "add_record_roster"]
    /\ UNCHANGED <<writers, store_ok, backup, roster, records, nextId, locks, today, admin_ok, confirm_wipe,
                   records_work>>

\* a write that looked at the locks once more inside its transaction
AddWrite_recheck ==
    /\ pending # Idle
    /\ pending.pc = "write"
    /\ LET out == IF is_locked(pending.d)
                  THEN [ret |-> "False", msg |-> "locked", recs |-> records,
                        next |-> nextId]
                  ELSE add_record_write(pending.d, pending.emp_id, pending.grp,
                                        pending.points)
       IN  /\ (out.next = nextId \/ out.next <= MaxId + 1)
           /\ records' = out.recs
           /\ nextId' = out.next
           /\ last' = [op |-> "add_record", ret |-> out.ret, msg |-> out.msg,
                       d |-> pending.d, emp_id |-> pending.emp_id,
                       points |-> pending.points, again |-> FALSE,
                       locked |-> is_locked(pending.d)]
    /\ pending' = Idle
    /\ UNCHANGED <<writers, store_ok, backup, roster, locks, today, admin_ok, confirm_wipe, records_work>>

\* Third statement: the with-block that updates or inserts the row
AddWrite ==
    /\ pending # Idle
    /\ pending.pc = "write"
    /\ LET out == add_record_write(pending.d, pending.emp_id, pending.grp,
                                   pending.points)
       IN  /\ (out.next = nextId \/ out.next <= MaxId + 1)
           /\ records' = out.recs
           /\ nextId' = out.next
           /\ last' = [op |-> "add_record", ret |-> out.ret, msg |-> out.msg,
                       d |-> pending.d, emp_id |-> pending.emp_id,
                       points |-> pending.points, again |-> FALSE,
                       locked |-> is_locked(pending.d)]
    /\ pending' = Idle
    /\ UNCHANGED <<writers, store_ok, backup, roster, locks, today, admin_ok, confirm_wipe, records_work>>

\* add_record in handler h up to its with-block: the lock check and the
\* roster lookup, then the connection of the with-block is opened
AddEnter(h, d, emp_id, points) ==
    /\ writers[h] = Idle
    /\ IF is_locked(d)
       THEN /\ last' = [op |-> "add_record", ret |-> "False", msg |-> "locked"]
            /\ UNCHANGED writers
       ELSE IF emp_id \notin RosterIds
       THEN /\ last' = [op |-> "add_record", ret |-> "False", msg |-> "unknown"]
            /\ UNCHANGED writers
       ELSE /\ writers' = [writers EXCEPT ![h] =
                            [pc |-> "select", d |-> d, emp_id |-> emp_id,
                             points |-> points, grp |-> RosterGrp(emp_id)]]
            /\ last' = [op |-> "add_record_enter", h |-> h]
    /\ UNCHANGED <<pending, backup, store_ok, roster, records, nextId, locks, today,
                   admin_ok, confirm_wipe, records_work>>

\* SELECT id FROM records WHERE d=? AND emp_id=? in handler h
AddSelect(h) ==
    /\ writers[h] # Idle
    /\ writers[h].pc = "select"
    /\ writers' = [writers EXCEPT ![h] =
                    [pc |-> "write", d |-> writers[h].d, emp_id |-> writers[h].emp_id,
                     points |-> writers[h].points, grp |-> writers[h].grp,
                     exists |-> \E r \in records :
                                    /\ r.d = isoformat(writers[h].d)
                                    /\ r.emp_id = writers[h].emp_id]]
    /\ last' = [op |-> "add_record_select", h |-> h]
    /\ UNCHANGED <<pending, backup, store_ok, roster, records, nextId, locks, today,
                   admin_ok, confirm_wipe, records_work>>

\* add_record_store on a table without UNIQUE(d, emp_id)
add_record_store_twice(w) ==
    LET ds == isoformat(w.d)
        new == [id |-> nextId, d |-> ds, emp_id |-> w.emp_id, grp |-> w.grp,
                points |-> w.points, shift |-> Empty, memo |-> Empty]
    IN  IF w.exists
        THEN [ret |-> "True",
              recs |-> {IF r.d = ds /\ r.emp_id = w.emp_id
                        THEN [r EXCEPT !.grp = w.grp, !.points = w.points]
                        ELSE r : r \in records},
              next |-> nextId]
        ELSE [ret |-> "True", recs |-> records \cup {new}, next |-> nextId + 1]

\* the table after handler h's UPDATE or INSERT, chosen by what its SELECT saw,
\* and the commit of the with-block; an INSERT that fails a constraint raises
\* and the with-block rolls back
add_record_store(w) ==
    LET ds == isoformat(w.d)
        new == [id |-> nextId, d |-> ds, emp_id |-> w.emp_id, grp |-> w.grp,
                points |-> w.points, shift |-> Empty, memo |-> Empty]
    IN  IF w.exists
        THEN IF ~RowOk([new EXCEPT !.id = 0])
             THEN [ret |-> "raise", recs |-> records, next |-> nextId]
             ELSE [ret |-> "True",
                   recs |-> {IF r.d = ds /\ r.emp_id = w.emp_id
                             THEN [r EXCEPT !.grp = w.grp, !.points = w.points]
                             ELSE r : r \in records},
                   next |-> nextId]
        ELSE IF ~RowOk(new) \/ ~KeyFree(records, new)
        THEN [ret |-> "raise", recs |-> records, next |-> nextId]
        ELSE [ret |-> "True", recs |-> records \cup {new}, next |-> nextId + 1]

\* handler h writes and leaves its with-block
AddStore(h) ==
    /\ writers[h] # Idle
    /\ writers[h].pc = "write"
    /\ LET out == add_record_store(writers[h])
       IN  /\ (out.next = nextId \/ out.next <= MaxId + 1)
           /\ records' = out.recs
           /\ nextId' = out.next
           /\ last' = [op |-> "add_record_store", h |-> h, ret |-> out.ret,
                       d |-> writers[h].d, emp_id |-> writers[h].emp_id,
                       lost |-> /\ ~writers[h].exists
                                /\ \E r \in records :
                                        /\ r.d = isoformat(writers[h].d)
                                        /\ r.emp_id = writers[h].emp_id]
    /\ writers' = [writers EXCEPT ![h] = Idle]
    /\ UNCHANGED <<pending, backup, store_ok, roster, locks, today, admin_ok,
                   confirm_wipe, records_work>>

-----------------------------------------------------------------------------
(* Session *)

\* a PIN gate that accepts what the configured PIN starts with
Login_prefix(pin_try) ==
    /\ ~admin_ok
    /\ IF pin_try # Empty /\ Len(pin_try) <= Len(ADMIN_PIN)
          /\ SubSeq(ADMIN_PIN, 1, Len(pin_try)) = pin_try
       THEN admin_ok' = TRUE /\ records_work' = Work0
       ELSE UNCHANGED <<admin_ok, records_work>>
    /\ last' = [op |-> "login", ok |-> admin_ok', pin |-> pin_try]
    /\ UNCHANGED <<writers, store_ok, backup, pending, roster, records, nextId, locks, today, confirm_wipe>>

\* the PIN gate of the settings page
Login(pin_try) ==
    /\ ~admin_ok
    /\ IF pin_try = ADMIN_PIN
       THEN admin_ok' = TRUE /\ records_work' = Work0
       ELSE UNCHANGED <<admin_ok, records_work>>
    /\ last' = [op |-> "login", ok |-> pin_try = ADMIN_PIN, pin |-> pin_try]
    /\ UNCHANGED <<writers, store_ok, backup, pending, roster, records, nextId, locks, today, confirm_wipe>>

\* the store password gate of the ranking page
StoreLogin(store_try) ==
    /\ ~store_ok
    /\ store_ok' = (store_try = STORE_PASS)
    /\ last' = [op |-> "store_login", ok |-> store_try = STORE_PASS]
    /\ UNCHANGED <<writers, backup, pending, roster, records, nextId, locks, today, admin_ok,
                   confirm_wipe, records_work>>

\* the ranking page for a preset, or for the two dates of カスタム ("custom")
ShowRanking(preset, start_date, end_date) ==
    LET period == IF preset = "custom" THEN <<start_date, end_date>>
                  ELSE get_period(preset)
        df_range == query_range(period[1], period[2])
    IN  /\ store_ok
        /\ IF df_range = {}
           THEN last' = [op |-> "ranking", preset |-> preset, period |-> period,
                         df_range |-> df_range, team_totals |-> <<>>,
                         per_person |-> {}, top3 |-> <<>>]
           ELSE LET pp == per_person(df_range)
                    teams == {p.team : p \in pp}
                IN  \E tt \in team_totals(df_range) :
                    \E lists \in [teams -> UNION {top3(pp, g) : g \in teams}] :
                        /\ \A g \in teams : lists[g] \in top3(pp, g)
                        /\ last' = [op |-> "ranking", preset |-> preset,
                                    period |-> period, df_range |-> df_range,
                                    team_totals |-> tt, per_person |-> pp,
                                    top3 |-> lists]
        /\ UNCHANGED <<writers, store_ok, backup, pending, roster, records, nextId, locks, today,
                       admin_ok, confirm_wipe, records_work>>

\* a new browser session: st.session_state starts empty
NewSession ==
    /\ admin_ok' = FALSE
    /\ confirm_wipe' = FALSE
    /\ records_work' = NoWork
    /\ store_ok' = FALSE
    /\ last' = [op |-> "new_session"]
    /\ UNCHANGED <<writers, backup, pending, roster, records, nextId, locks, today>>

-----------------------------------------------------------------------------
(* Settings page: roster and month locks *)

\* add_member_form with a handler that rewrites the team of the records
AddMember_regroup(new_emp_id, new_name, new_grp) ==
    /\ admin_ok
    /\ roster' = roster \cup {[emp_id |-> strip(new_emp_id), name |-> strip(new_name),
                                grp |-> strip(new_grp)]}
    /\ records' = {[r EXCEPT !.grp = strip(new_grp)] : r \in records}
    /\ records_work' = Work0
    /\ last' = [op |-> "add_member", ok |-> TRUE, msg |-> "added"]
    /\ UNCHANGED <<writers, store_ok, backup, pending, nextId, locks, today, admin_ok, confirm_wipe>>

\* add_member_form on a roster table without its UNIQUE constraints
AddMember_unconstrained(new_emp_id, new_name, new_grp) ==
    /\ admin_ok
    /\ roster' = roster \cup {[emp_id |-> strip(new_emp_id), name |-> strip(new_name),
                                grp |-> strip(new_grp)]}
    /\ records_work' = Work0
    /\ last' = [op |-> "add_member", ok |-> TRUE, msg |-> "added"]
    /\ UNCHANGED <<writers, store_ok, backup, pending, records, nextId, locks, today, admin_ok, confirm_wipe>>

\* add_member_form
AddMember(new_emp_id, new_name, new_grp) ==
    LET emp_id_clean == strip(new_emp_id)
        name_clean == strip(new_name)
        grp_clean == strip(new_grp)
        blank == emp_id_clean = Empty \/ name_clean = Empty \/ grp_clean = Empty
        \* emp_id TEXT UNIQUE, name TEXT NOT NULL UNIQUE
        conflict == \E m \in roster : m.emp_id = emp_id_clean \/ m.name = name_clean
    IN  /\ admin_ok
        /\ roster' = IF blank \/ conflict THEN roster
                     ELSE roster \cup {[emp_id |-> emp_id_clean, name |-> name_clean,
                                         grp |-> grp_clean]}
        /\ records_work' = Work0
        /\ last' = [op |-> "add_member", ok |-> ~(blank \/ conflict),
                    msg |-> IF blank THEN "blank" ELSE IF conflict THEN "conflict"
                            ELSE "added"]
        /\ UNCHANGED <<writers, store_ok, backup, pending, records, nextId, locks, today, admin_ok, confirm_wipe>>

\* lock_month that replaces the rows of table locks
LockMonth_replace(dt) ==
    /\ admin_ok
    /\ locks' = {ym_of(dt)}
    /\ records_work' = Work0
    /\ last' = [op |-> "lock_month", was |-> is_locked(dt)]
    /\ UNCHANGED <<writers, store_ok, backup, pending, roster, records, nextId, today, admin_ok, confirm_wipe>>

\* lock_month(lock_target)
LockMonth(dt) ==
    /\ admin_ok
    /\ locks' = locks \cup {ym_of(dt)}
    /\ records_work' = Work0
    /\ last' = [op |-> "lock_month", was |-> is_locked(dt)]
    /\ UNCHANGED <<writers, store_ok, backup, pending, roster, records, nextId, today, admin_ok, confirm_wipe>>

\* unlock_month(lock_target)
UnlockMonth(dt) ==
    /\ admin_ok
    /\ locks' = locks \ {ym_of(dt)}
    /\ records_work' = Work0
    /\ last' = [op |-> "unlock_month", was |-> is_locked(dt)]
    /\ UNCHANGED <<writers, store_ok, backup, pending, roster, records, nextId, today, admin_ok, confirm_wipe>>

-----------------------------------------------------------------------------
(* Settings page: the data editor, batch update and batch delete *)

\* a cell of the data editor is changed
EditWork(rid, col, val) ==
    LET W == Work0
        row == CHOOSE w \in W.rows : w.id = rid
        new == CASE col = "date" -> [row EXCEPT !.date = val]
                 [] col = "emp_id" -> [row EXCEPT !.emp_id = val]
                 [] col = "grp" -> [row EXCEPT !.grp = val]
                 [] col = "points" -> [row EXCEPT !.points = val]
    IN  /\ admin_ok
        /\ month_df(today) # {}
        /\ \E w \in W.rows : w.id = rid
        /\ new # row
        /\ records_work' = [W EXCEPT !.rows = (W.rows \ {row}) \cup {new}]
        /\ last' = [op |-> "edit"]
        /\ UNCHANGED <<writers, store_ok, backup, pending, roster, records, nextId, locks, today, admin_ok, confirm_wipe>>

RECURSIVE apply_updates(_, _, _)
\* the loop of the save handler over the work table's rows, from row i on:
\* [ok, recs]; ok is FALSE when an UPDATE raised
apply_updates(recs, rows, i) ==
    IF i > Len(rows) THEN [ok |-> TRUE, recs |-> recs]
    ELSE
      LET row == rows[i]
          hit == {r \in recs : r.id = row.id}
          new == {[r EXCEPT !.d = isoformat(row.date), !.emp_id = row.emp_id,
                            !.grp = row.grp, !.points = row.points] : r \in hit}
      IN  IF is_locked(row.date) THEN apply_updates(recs, rows, i + 1)
          ELSE IF \E n \in new : ~RowOk(n) \/ ~KeyFree(recs, n)
          THEN [ok |-> FALSE, recs |-> recs]
          ELSE apply_updates((recs \ hit) \cup new, rows, i + 1)

\* a save handler whose UPDATEs are committed one by one
save_edits_partial(rows) == apply_updates(records, rows, 1)

\* the outcome of the save handler: on an exception the with-block rolls back
save_edits(rows) ==
    LET out == apply_updates(records, rows, 1)
    IN  IF out.ok THEN out ELSE [ok |-> FALSE, recs |-> records]

\* the button 修正を保存, the rows iterated in the given order
SaveEdits(rows) ==
    LET out == save_edits(rows)
    IN  /\ admin_ok
        /\ month_df(today) # {}
        /\ rows \in Orders(Work0.rows)
        /\ records' = out.recs
        /\ records_work' = Work0
        /\ last' = [op |-> "save", ok |-> out.ok]
        /\ UNCHANGED <<writers, store_ok, backup, pending, roster, nextId, locks, today, admin_ok, confirm_wipe>>

\* the table after the delete handler
delete_rows(rows, delete_ids) ==
    {r \in records :
        ~\E row \in rows : row.id \in delete_ids /\ row.id = r.id /\ ~is_locked(row.date)}

\* the button 選択した行を削除
DeleteRows(delete_ids) ==
    /\ admin_ok
    /\ month_df(today) # {}
    /\ delete_ids \subseteq {w.id : w \in Work0.rows}
    /\ records' = delete_rows(Work0.rows, delete_ids)
    /\ records_work' = Work0
    /\ last' = [op |-> "delete", ok |-> delete_ids # {}]
    /\ UNCHANGED <<writers, store_ok, backup, pending, roster, nextId, locks, today, admin_ok, confirm_wipe>>

-----------------------------------------------------------------------------
(* Settings page: CSV export and import *)

\* a CSV file: the header's labels and the rows' cells, all text
Csv(header, rows) == [header |-> header, rows |-> rows]

\* a text value as to_csv writes it (None and '' both give an empty cell)
CsvText(v) == IF v = Null THEN Empty ELSE v

\* ORDER BY d ASC: the orders the SELECT can return the rows in
SortByD(recs) ==
    {f \in Orders(recs) :
        \A i, j \in 1..Cardinality(recs) : i < j => ~StrLess(f[j].d, f[i].d)}

\* df_export.to_csv(index=False), one file per order of the rows
Export(recs) ==
    {Csv(<<"d", "emp_id", "grp", "points", "shift", "memo">>,
         [i \in 1..Cardinality(recs) |->
            <<CsvText(s[i].d), CsvText(s[i].emp_id), CsvText(s[i].grp),
              FormatFloat(s[i].points), CsvText(s[i].shift), CsvText(s[i].memo)>>]) :
        s \in SortByD(recs)}

\* a value of a frame: its dtype tag t, its number v and its text s
NaN == [t |-> "nan", v |-> 0, s |-> Empty]

\* pd.read_csv's type inference over one column's cells
read_column(cells) ==
    IF Len(cells) > 0 /\ \A i \in 1..Len(cells) : IsIntText(cells[i])
    THEN [i \in 1..Len(cells) |-> [t |-> "int", v |-> IntOfText(cells[i]), s |-> Empty]]
    ELSE IF \A i \in 1..Len(cells) : cells[i] = Empty \/ IsNumText(cells[i])
    THEN [i \in 1..Len(cells) |->
            IF cells[i] = Empty THEN NaN
            ELSE [t |-> "float", v |-> NumOfText(cells[i]), s |-> Empty]]
    ELSE [i \in 1..Len(cells) |->
            IF cells[i] = Empty THEN NaN ELSE [t |-> "str", v |-> 0, s |-> cells[i]]]

\* pd.to_numeric(errors="coerce").fillna(0.0) of one value
to_numeric(x) ==
    CASE x.t = "int" -> x.v
      [] x.t = "float" -> x.v
      [] x.t = "str" -> IF IsNumText(x.s) THEN NumOfText(x.s) ELSE 0
      [] OTHER -> 0

\* a value bound to a TEXT column (NaN is stored as NULL)
bind_text(x) ==
    CASE x.t = "int" -> FormatInt(x.v)
      [] x.t = "float" -> FormatFloat(x.v)
      [] x.t = "str" -> x.s
      [] OTHER -> Null

\* col_map; the labels 日付, 社員ID, チーム, グループ, ポイント, メモ, シフト are
\* written JP_date, JP_emp_id, JP_team, JP_group, JP_points, JP_memo, JP_shift
col_map(h) ==
    CASE h = "JP_date" -> "d"
      [] h = "JP_emp_id" -> "emp_id"
      [] h = "JP_team" -> "grp"
      [] h = "JP_group" -> "grp"
      [] h = "JP_points" -> "points"
      [] h = "JP_memo" -> "memo"
      [] h = "JP_shift" -> "shift"
      [] OTHER -> h

need_cols == {"d", "emp_id", "grp", "points"}

\* pd.read_csv(uploaded): the labels and the typed columns of the frame
read_csv(csv) ==
    [header |-> csv.header,
     n |-> Len(csv.rows),
     cols |-> [i \in 1..Len(csv.header) |->
                read_column([r \in 1..Len(csv.rows) |-> csv.rows[r][i]])]]

\* the columns of df_new named c after the rename
ColsNamed(df_new, c) ==
    {i \in 1..Len(df_new.header) : col_map(df_new.header[i]) = c}

\* the values of the column named c, one per row
ColumnOf(df_new, c) == df_new.cols[CHOOSE i \in ColsNamed(df_new, c) : TRUE]

\* the tuples handed to executemany
import_rows(df_new) ==
    LET d == ColumnOf(df_new, "d")
        e == ColumnOf(df_new, "emp_id")
        g == ColumnOf(df_new, "grp")
        p == ColumnOf(df_new, "points")
    IN  [r \in 1..df_new.n |->
            [d |-> bind_text(d[r]), emp_id |-> bind_text(e[r]), grp |-> bind_text(g[r]),
             points |-> to_numeric(p[r]),
             shift |-> IF ColsNamed(df_new, "shift") = {} THEN Empty
                       ELSE bind_text(ColumnOf(df_new, "shift")[r]),
             memo |-> IF ColsNamed(df_new, "memo") = {} THEN Empty
                      ELSE bind_text(ColumnOf(df_new, "memo")[r])]]

RECURSIVE insert_all(_, _, _, _)
\* executemany(INSERT ...) from row i on: [ok, recs, next]
insert_all(recs, rows, i, next) ==
    IF i > Len(rows) THEN [ok |-> TRUE, recs |-> recs, next |-> next]
    ELSE
      LET r == [id |-> next, d |-> rows[i].d, emp_id |-> rows[i].emp_id,
                grp |-> rows[i].grp, points |-> rows[i].points,
                shift |-> rows[i].shift, memo |-> rows[i].memo]
      IN  IF ~RowOk(r) \/ ~KeyFree(recs, r)
          THEN [ok |-> FALSE, recs |-> recs, next |-> next]
          ELSE insert_all(recs \cup {r}, rows, i + 1, next + 1)

\* the restore handler with DELETE and executemany committed one by one
import_replace_autocommit(df_new) ==
    IF \E c \in need_cols : ColsNamed(df_new, c) = {}
    THEN [out |-> "stop", recs |-> records, next |-> nextId]
    ELSE IF \E c \in need_cols \cup {"shift", "memo"} : Cardinality(ColsNamed(df_new, c)) > 1
    THEN [out |-> "error", recs |-> {}, next |-> nextId]
    ELSE
      LET ins == insert_all({}, import_rows(df_new), 1, nextId)
      IN  IF ins.ok THEN [out |-> "done", recs |-> ins.recs, next |-> ins.next]
          ELSE [out |-> "error", recs |-> ins.recs, next |-> ins.next]

\* a restore handler that applies add_record's roster and lock checks to
\* the rows
import_replace_checked(df_new) ==
    IF \E c \in need_cols : ColsNamed(df_new, c) = {}
    THEN [out |-> "stop", recs |-> records, next |-> nextId]
    ELSE IF \E c \in need_cols \cup {"shift", "memo"} : Cardinality(ColsNamed(df_new, c)) > 1
    THEN [out |-> "error", recs |-> records, next |-> nextId]
    ELSE
      LET ins == insert_all({}, import_rows(df_new), 1, nextId)
      IN  IF ins.ok /\ \A r \in ins.recs : r.emp_id \in RosterIds /\ ~is_locked(to_date(r.d))
          THEN [out |-> "done", recs |-> ins.recs, next |-> ins.next]
          ELSE [out |-> "error", recs |-> records, next |-> nextId]

\* the restore handler with the column check after the DELETE
import_replace_late_check(df_new) ==
    IF \E c \in need_cols : ColsNamed(df_new, c) = {}
    THEN [out |-> "stop", recs |-> {}, next |-> nextId]
    ELSE IF \E c \in need_cols \cup {"shift", "memo"} : Cardinality(ColsNamed(df_new, c)) > 1
    THEN [out |-> "error", recs |-> records, next |-> nextId]
    ELSE
      LET ins == insert_all({}, import_rows(df_new), 1, nextId)
      IN  IF ins.ok THEN [out |-> "done", recs |-> ins.recs, next |-> ins.next]
          ELSE [out |-> "error", recs |-> records, next |-> nextId]

\* the outcome of the restore handler for an uploaded file:
\* "stop" (a required column is missing), "error" (an exception: rolled back)
\* or "done"
import_replace(df_new) ==
    IF \E c \in need_cols : ColsNamed(df_new, c) = {}
    THEN [out |-> "stop", recs |-> records, next |-> nextId]
    ELSE IF \E c \in need_cols \cup {"shift", "memo"} : Cardinality(ColsNamed(df_new, c)) > 1
    THEN \* a label selects two columns: the tuples do not fit the six placeholders
         [out |-> "error", recs |-> records, next |-> nextId]
    ELSE
      LET ins == insert_all({}, import_rows(df_new), 1, nextId)
      IN  IF ins.ok THEN [out |-> "done", recs |-> ins.recs, next |-> ins.next]
          ELSE [out |-> "error", recs |-> records, next |-> nextId]

\* the button このCSVで上書き復元する; after a restore that went through,
\* auto_backup_latest() runs inside the handler's try block, and fails says
\* whether that call fails
ImportReplace(df_new, fails) ==
    LET out == import_replace(df_new)
    IN  /\ admin_ok
        /\ (out.next = nextId \/ out.next <= MaxRestoreId + 1)
        /\ records' = out.recs
        /\ nextId' = out.next
        /\ records_work' = Work0
        /\ LET bk == auto_backup_latest(out.recs, fails)
            IN  IF out.out = "done"
                THEN /\ backup' = bk.file
                     /\ last' = [op |-> "import",
                                 out |-> IF bk.raised THEN "error" ELSE "done",
                                 df_new |-> df_new]
                ELSE /\ backup' = backup
                     /\ last' = [op |-> "import", out |-> out.out, df_new |-> df_new]
        /\ UNCHANGED <<writers, store_ok, pending, roster, locks, today, admin_ok, confirm_wipe>>

\* hand-made files
\* one row, the labels of the Japanese export, no shift and memo columns
CsvOneRow ==
    Csv(<<"JP_date", "JP_emp_id", "JP_group", "JP_points">>,
        << <<isoformat(Date(2025, 1, 1)), <<"0", "7">>, <<"B">>, <<"1">>>> >>)

\* two rows, the labels of the export, points that are no number
CsvTwoRows ==
    Csv(<<"d", "emp_id", "grp", "points", "shift", "memo">>,
        << <<isoformat(Date(2024, 12, 31)), <<"0", "7">>, <<"A">>, <<"x">>, Empty, Empty>>,
           <<isoformat(Date(2025, 1, 1)), <<"a">>, <<"B">>, <<"1">>, Empty, Empty>> >>)

\* two rows with the same (date, employee)
CsvDupKey ==
    Csv(<<"JP_date", "JP_emp_id", "JP_team", "JP_points">>,
        << <<isoformat(Date(2025, 1, 1)), <<"a">>, <<"A">>, <<"1">>>>,
           <<isoformat(Date(2025, 1, 1)), <<"a">>, <<"B">>, <<"0">>>> >>)

\* a valid row, then a row with negative points
CsvNegative ==
    Csv(<<"JP_date", "JP_emp_id", "JP_team", "JP_points">>,
        << <<isoformat(Date(2024, 12, 31)), <<"a">>, <<"A">>, <<"1">>>>,
           <<isoformat(Date(2025, 1, 1)), <<"a">>, <<"A">>, <<"-", "1">>>> >>)

CsvNoDate ==
    Csv(<<"JP_emp_id", "JP_team", "JP_points">>, << <<<<"a">>, <<"A">>, <<"1">>>> >>)

CsvNoEmp ==
    Csv(<<"JP_date", "JP_team", "JP_points">>,
        << <<isoformat(Date(2025, 1, 1)), <<"A">>, <<"1">>>> >>)

CsvNoGrp ==
    Csv(<<"JP_date", "JP_emp_id", "JP_points">>,
        << <<isoformat(Date(2025, 1, 1)), <<"a">>, <<"1">>>> >>)

CsvNoPoints ==
    Csv(<<"JP_date", "JP_emp_id", "JP_team">>,
        << <<isoformat(Date(2025, 1, 1)), <<"a">>, <<"A">>>> >>)

\* both labels of the team column
CsvTwoGrp ==
    Csv(<<"JP_date", "JP_emp_id", "JP_team", "JP_group", "JP_points">>,
        << <<isoformat(Date(2025, 1, 1)), <<"a">>, <<"A">>, <<"A">>, <<"1">>>> >>)

\* a hand-edited file: the day written without its leading zero
CsvShortDay ==
    Csv(<<"JP_date", "JP_emp_id", "JP_team", "JP_points">>,
        << <<<<"2", "0", "2", "5", "-", "0", "1", "-", "1">>, <<"a">>, <<"B">>, <<"1">>>> >>)

CsvSamples ==
    {CsvOneRow, CsvTwoRows, CsvDupKey, CsvNegative, CsvNoDate, CsvNoEmp, CsvNoGrp,
     CsvNoPoints, CsvTwoGrp, CsvShortDay}

\* the frames read from the hand-made files
Uploads == {read_csv(csv) : csv \in CsvSamples}

-----------------------------------------------------------------------------
(* Settings page: data reset *)

\* the button 全データをリセットする
ResetAsk ==
    /\ admin_ok
    /\ confirm_wipe' = TRUE
    /\ records_work' = Work0
    /\ last' = [op |-> "reset_ask"]
    /\ UNCHANGED <<writers, store_ok, backup, pending, roster, records, nextId, locks, today, admin_ok>>

\* a confirm button that is drawn whatever confirm_wipe is
ResetConfirm_direct(fails) ==
    /\ admin_ok
    /\ records' = {}
    /\ records_work' = Work0
    /\ LET bk == auto_backup_latest({}, fails)
        IN  /\ backup' = bk.file
            /\ confirm_wipe' = bk.raised
            /\ last' = [op |-> "reset_confirm", ok |-> ~bk.raised]
    /\ UNCHANGED <<writers, store_ok, pending, roster, nextId, locks, today, admin_ok>>

\* the button はい、削除します: DELETE FROM records commits, then
\* auto_backup_latest() runs before the session flags are reset; fails says
\* whether that call fails
ResetConfirm(fails) ==
    /\ admin_ok
    /\ confirm_wipe
    /\ records' = {}
    /\ records_work' = Work0
    /\ LET bk == auto_backup_latest({}, fails)
        IN  /\ backup' = bk.file
            /\ confirm_wipe' = bk.raised
            /\ last' = [op |-> "reset_confirm", ok |-> ~bk.raised]
    /\ UNCHANGED <<writers, store_ok, pending, roster, nextId, locks, today, admin_ok>>

\* the button キャンセル
ResetCancel ==
    /\ admin_ok
    /\ confirm_wipe
    /\ confirm_wipe' = FALSE
    /\ records_work' = Work0
    /\ last' = [op |-> "reset_cancel"]
    /\ UNCHANGED <<writers, store_ok, backup, pending, roster, records, nextId, locks, today, admin_ok>>

-----------------------------------------------------------------------------
(* Specifications *)

\* a fresh database and a fresh session
Init ==
    /\ roster = {}
    /\ records = {}
    /\ nextId = 1
    /\ locks = {}
    /\ today = Date(2025, 1, 1)
    /\ admin_ok = FALSE
    /\ confirm_wipe = FALSE
    /\ records_work = NoWork
    /\ pending = Idle
    /\ backup = NoFile
    /\ store_ok = FALSE
    /\ writers = [h \in Handlers |-> Idle]
    /\ last = [op |-> "init"]

\* data entry, the roster and the month locks
Next ==
    \/ \E d \in Dates, e \in EmpIds, p \in PointInputs : AddRecord(d, e, p)
    \/ \E pin \in PinInputs : Login(pin)
    \/ \E m \in MemberInputs : AddMember(m[1], m[2], m[3])
    \/ \E dt \in Dates : LockMonth(dt)
    \/ \E dt \in Dates : UnlockMonth(dt)

Spec == Init /\ [][Next]_vars

\* the script starts on a database that holds a roster
InitLedger ==
    /\ roster = Roster0
    /\ records = {}
    /\ nextId = 1
    /\ locks = {}
    /\ today = Date(2025, 1, 1)
    /\ admin_ok = FALSE
    /\ confirm_wipe = FALSE
    /\ records_work = NoWork
    /\ pending = Idle
    /\ backup = NoFile
    /\ store_ok = FALSE
    /\ writers = [h \in Handlers |-> Idle]
    /\ last = [op |-> "init"]

\* the cells changed in the data editor: a row is re-dated or its points are
\* set to 0
BatchEdits == {<<"date", dt>> : dt \in Dates} \cup {<<"points", 0>>}

\* the data editor with batch update and batch delete, add_record and the locks
NextBatch ==
    \/ \E d \in Dates, e \in EmpIds : AddRecord(d, e, 1)
    \/ Login(ADMIN_PIN)
    \/ \E dt \in Dates : LockMonth(dt)
    \/ \E dt \in Dates : UnlockMonth(dt)
    \/ \E rid \in 1..MaxId, c \in BatchEdits : EditWork(rid, c[1], c[2])
    \/ \E rows \in Orders(Work0.rows) : SaveEdits(rows)
    \/ \E ids \in SUBSET (1..MaxId) : DeleteRows(ids)

SpecBatch == InitLedger /\ [][NextBatch]_vars

\* export, restore and reset, add_record and the locks; latest_backup.csv
\* cannot be written here (SpecBackup has both outcomes of the backup)
NextImport ==
    \/ \E d \in Dates, e \in EmpIds : AddRecord(d, e, 1)
    \/ Login(ADMIN_PIN)
    \/ LockMonth(today)
    \/ UnlockMonth(today)
    \/ \E df_new \in Uploads \cup {read_csv(csv) : csv \in Export(records)} :
            ImportReplace(df_new, TRUE)
    \/ ResetAsk
    \/ ResetConfirm(TRUE)
    \/ ResetCancel

SpecImport == InitLedger /\ [][NextImport]_vars

\* what the handlers are given where every writer of table records runs
LedgerEdits == {<<"date", dt>> : dt \in Dates} \cup {<<"points", -1>>}

LedgerUploads == {read_csv(csv) : csv \in {CsvTwoRows, CsvDupKey, CsvNegative}}

\* every handler that writes table records; latest_backup.csv cannot be
\* written here
NextLedger ==
    \/ \E d \in Dates, e \in EmpIds, p \in {-1, 1} : AddRecord(d, e, p)
    \/ Login(ADMIN_PIN)
    \/ LockMonth(today)
    \/ UnlockMonth(today)
    \/ \E rid \in 1..MaxRestoreId, c \in LedgerEdits : EditWork(rid, c[1], c[2])
    \/ \E rows \in Orders(Work0.rows) : SaveEdits(rows)
    \/ \E ids \in SUBSET (1..MaxRestoreId) : DeleteRows(ids)
    \/ \E df_new \in LedgerUploads \cup {read_csv(csv) : csv \in Export(records)} :
            ImportReplace(df_new, TRUE)
    \/ ResetAsk
    \/ ResetConfirm(TRUE)
    \/ ResetCancel

SpecLedger == InitLedger /\ [][NextLedger]_vars

\* one browser session on every page: the PIN gate, the settings page behind
\* it and the entry form in front of it; latest_backup.csv cannot be written
\* here
NextAdmin ==
    \/ \E e \in EmpIds : AddRecord(today, e, 1)
    \/ \E pin \in PinInputs : Login(pin)
    \/ NewSession
    \/ \E m \in MemberInputs : AddMember(m[1], m[2], m[3])
    \/ LockMonth(today)
    \/ UnlockMonth(today)
    \/ \E rid \in 1..MaxId : EditWork(rid, "points", 0)
    \/ \E rows \in Orders(Work0.rows) : SaveEdits(rows)
    \/ \E ids \in SUBSET (1..MaxId) : DeleteRows(ids)
    \/ ImportReplace(read_csv(CsvOneRow), TRUE)
    \/ ResetAsk
    \/ ResetConfirm(TRUE)
    \/ ResetCancel

SpecAdmin == Init /\ [][NextAdmin]_vars

\* script runs, restores and resets with a backup slot that may fail
NextBackup ==
    \/ \E d \in Dates, e \in EmpIds : AddRecord(d, e, 1)
    \/ \E fails \in BOOLEAN : PageLoad(fails)
    \/ Login(ADMIN_PIN)
    \/ \E df_new \in {read_csv(CsvOneRow), read_csv(CsvDupKey), read_csv(CsvNoGrp)},
          fails \in BOOLEAN :
            ImportReplace(df_new, fails)
    \/ ResetAsk
    \/ \E fails \in BOOLEAN : ResetConfirm(fails)
    \/ ResetCancel

SpecBackup == InitLedger /\ [][NextBackup]_vars

\* records of two employees over three days, under three team labels
RankRows ==
    { [id |-> 1, d |-> isoformat(Date(2024, 12, 31)), emp_id |-> <<"0", "7">>,
       grp |-> <<"A">>, points |-> 3, shift |-> Empty, memo |-> Empty],
      [id |-> 2, d |-> isoformat(Date(2024, 12, 31)), emp_id |-> <<"a">>,
       grp |-> <<"A">>, points |-> 2, shift |-> Empty, memo |-> Empty],
      [id |-> 3, d |-> isoformat(Date(2025, 1, 1)), emp_id |-> <<"0", "7">>,
       grp |-> <<"B">>, points |-> 5, shift |-> Empty, memo |-> Empty],
      [id |-> 4, d |-> isoformat(Date(2025, 1, 1)), emp_id |-> <<"a">>,
       grp |-> <<"A">>, points |-> 1, shift |-> Empty, memo |-> Empty],
      [id |-> 5, d |-> isoformat(Date(2025, 1, 15)), emp_id |-> <<"0", "7">>,
       grp |-> <<"C">>, points |-> 7, shift |-> Empty, memo |-> Empty],
      [id |-> 6, d |-> isoformat(Date(2025, 1, 15)), emp_id |-> <<"a">>,
       grp |-> <<"B">>, points |-> 0, shift |-> Empty, memo |-> Empty] }

\* what date.today() returns on the day the page is opened
TodayInputs == {Date(2024, 12, 31), Date(2025, 1, 1), Date(2025, 1, 15)}

\* the dates picked for カスタム
CustomDates == {Date(2024, 12, 31), Date(2025, 1, 1), Date(2025, 1, 16)}

\* a database that holds some of RankRows, on one of the days
InitRanking ==
    /\ roster = Roster0
    /\ records \in SUBSET RankRows
    /\ nextId = 7
    /\ locks = {}
    /\ today \in TodayInputs
    /\ admin_ok = FALSE
    /\ confirm_wipe = FALSE
    /\ records_work = NoWork
    /\ pending = Idle
    /\ backup = NoFile
    /\ store_ok = FALSE
    /\ writers = [h \in Handlers |-> Idle]
    /\ last = [op |-> "init"]

\* the ranking page behind its gate
NextRanking ==
    \/ \E store_try \in {STORE_PASS, Empty} : StoreLogin(store_try)
    \/ \E preset \in Presets \ {"custom"} : ShowRanking(preset, today, today)
    \/ \E s \in CustomDates, e \in CustomDates : ShowRanking("custom", s, e)

SpecRanking == InitRanking /\ [][NextRanking]_vars

\* the ranking page over a ledger that entries and a restore have written
NextTop3 ==
    \/ \E d \in Dates, e \in EmpIds : AddRecord(d, e, 1)
    \/ Login(ADMIN_PIN)
    \/ \E df_new \in {read_csv(CsvOneRow), read_csv(CsvShortDay)} :
            ImportReplace(df_new, TRUE)
    \/ StoreLogin(STORE_PASS)
    \/ \E preset \in {"this_month", "last_month"} : ShowRanking(preset, today, today)
    \/ ShowRanking("custom", Date(2024, 12, 1), Date(2025, 2, 1))

SpecTop3 == InitLedger /\ [][NextTop3]_vars

\* two script runs entering records at the same time
NextWriters ==
    \/ \E h \in Handlers, d \in Dates, e \in EmpIds, p \in {1, 2} :
            AddEnter(h, d, e, p)
    \/ \E h \in Handlers : AddSelect(h)
    \/ \E h \in Handlers : AddStore(h)

SpecWriters == InitLedger /\ [][NextWriters]_vars

\* an id the roster does not hold
Stranger == <<"x">>

\* One session entering a record statement by statement while the
\* administrator's session locks and unlocks months.
NextRace ==
    \/ \E d \in Dates, e \in EmpIds \cup {Stranger}, p \in {-1, 1} :
            AddCheckLock(d, e, p)
    \/ AddReadRoster
    \/ AddWrite
    \/ Login(ADMIN_PIN)
    \/ \E dt \in Dates : LockMonth(dt)
    \/ \E dt \in Dates : UnlockMonth(dt)

SpecRace == InitLedger /\ [][NextRace]_vars

-----------------------------------------------------------------------------
(* Claims *)

\* the columns of a record without the internal row id
Fields(recs) ==
    {[d |-> r.d, emp_id |-> r.emp_id, grp |-> r.grp, points |-> r.points,
      shift |-> r.shift, memo |-> r.memo] : r \in recs}

\* the records dated in the month with key ym
InMonth(recs, ym) == {r \in recs : ym_of(to_date(r.d)) = ym}

\* C1: add_record(d, e, points) called while the month of d is locked returns
\* False and leaves table records unchanged, whoever e is and whether or not a
\* record for (d, e) exists.
C1_LockedAddFails ==
    [][last'.op = "add_record" =>
            \A d \in Dates, e \in EmpIds, p \in PointInputs :
                (is_locked(d) /\ AddRecord(d, e, p))
                    => (last'.ret = "False" /\ records' = records /\ nextId' = nextId)]_vars

\* C1 witness: an add_record was refused for the lock while the locked month
\* holds a record
C1_Witness ==
    /\ last.op = "add_record"
    /\ last.msg = "locked"
    /\ \E r \in records : is_locked(to_date(r.d))

\* C2: while a month is locked no add_record, batch update or batch delete
\* changes the records dated in it: none is edited, re-dated out of the month
\* or deleted, and none is created in or moved into the month.
C2_LockedMonthFrozen ==
    [][last'.op \in {"add_record", "save", "delete"} =>
            \A ym \in locks : InMonth(records', ym) = InMonth(records, ym)]_vars

\* C3: after two successive successful add_record calls with the same
\* (date, employee) and different points there is exactly one record for the
\* key; it holds the second call's points and the roster's team of the employee.
C3_Upsert ==
    (last.op = "add_record" /\ last.ret = "True" /\ last.again) =>
        LET K == {r \in records : r.d = isoformat(last.d) /\ r.emp_id = last.emp_id}
        IN  /\ Cardinality(K) = 1
            /\ \A r \in K : r.points = last.points /\ r.grp = RosterGrp(last.emp_id)

\* C3 witness: the second of two such calls has returned True
C3_Witness ==
    last.op = "add_record" /\ last.ret = "True" /\ last.again

C5_RoundTrip ==
    [][(last'.op = "import" /\ \E csv \in Export(records) : last'.df_new = read_csv(csv))
            => Fields(records') = Fields(records)]_vars

\* the files with a duplicate key and with negative points
FailingUploads == {read_csv(CsvDupKey), read_csv(CsvNegative)}

\* the tuples parsed from a file
ParsedRows(df_new) == {import_rows(df_new)[i] : i \in 1..df_new.n}

\* C6: a restore that fails after parsing (a duplicate (d, emp_id) key or
\* negative points among the rows) leaves table records as before the restore;
\* a restore that succeeds leaves exactly the parsed rows, under new ids.
C6_AllOrNothing ==
    [][last'.op = "import" =>
            /\ last'.df_new \in FailingUploads => last'.out = "error"
            /\ last'.out = "error" => records' = records
            /\ last'.out = "done" =>
                    /\ Fields(records') = ParsedRows(last'.df_new)
                    /\ Cardinality(records') = last'.df_new.n
                    /\ \A r \in records', q \in records : r.id # q.id]_vars

\* C6 witness: a restore has failed on a table that holds records
C6_Witness ==
    last.op = "import" /\ last.out = "error" /\ records # {}

\* a required column is missing after the rename of the labels
LacksColumn(df_new) ==
    \E c \in need_cols : \A i \in 1..Len(df_new.header) : col_map(df_new.header[i]) # c

\* the first and the last date query_range can be given
AllTime == <<Date(1, 1, 1), Date(9999, 12, 31)>>

\* C7: a restore from a file that lacks one of the columns d, emp_id, grp,
\* points stops before the DELETE: table records is unchanged and a range
\* query over all time returns the records of before.
C7_MissingColumn ==
    [][(last'.op = "import" /\ LacksColumn(last'.df_new)) =>
            /\ last'.out = "stop"
            /\ records' = records
            /\ query_range(AllTime[1], AllTime[2])' = records]_vars

\* C7 witness: a restore has stopped on a missing column while the table holds
\* records
C7_Witness ==
    last.op = "import" /\ last.out = "stop" /\ records # {}

\* the bounds given to query_range
QueryDates == Dates \cup {Date(2025, 1, 2)}

\* C8: query_range(start, end) returns exactly the records whose date is on or
\* after start and before end.
C8_HalfOpen ==
    \A start, end \in QueryDates :
        query_range(start, end) =
            {r \in records : ~DateLess(to_date(r.d), start) /\ DateLess(to_date(r.d), end)}

\* a file whose parsed rows carry negative points
NegativeImport(df_new) ==
    ~LacksColumn(df_new) /\ \E row \in ParsedRows(df_new) : row.points < 0

\* C9: no record ever holds negative points; an add_record, a batch update or a
\* restore that carries negative points changes nothing (the batch update
\* leaves the row's record as it is, and fails as a whole when the row's UPDATE
\* is run).
C9_NonNegative ==
    [][/\ \A r \in records' : r.points >= 0
       /\ last'.op = "add_record" =>
            \A d \in Dates, e \in EmpIds :
                AddRecord(d, e, -1) => (records' = records /\ last'.ret # "True")
       /\ last'.op = "save" =>
            \A w \in Work0.rows, r \in records :
                (w.points < 0 /\ r.id = w.id) =>
                    /\ r \in records'
                    /\ ~is_locked(w.date) => (records' = records /\ ~last'.ok)
       /\ (last'.op = "import" /\ NegativeImport(last'.df_new)) =>
            (records' = records /\ last'.out = "error")]_vars

\* C9 witness: a batch update with a row of negative points was refused
C9_Witness ==
    /\ last.op = "save"
    /\ ~last.ok
    /\ \E w \in records_work.rows, r \in records : r.id = w.id /\ w.points < 0

\* record r with the values of the work table's row w
Applied(w, r) ==
    [r EXCEPT !.d = isoformat(w.date), !.emp_id = w.emp_id, !.grp = w.grp,
              !.points = w.points]

\* the rows' records lie in locked and in unlocked months
MixedBatch(rows) ==
    /\ \E w \in rows, r \in records : r.id = w.id /\ is_locked(to_date(r.d))
    /\ \E w \in rows, r \in records : r.id = w.id /\ ~is_locked(to_date(r.d))

\* the ledger after the rows' changes are applied to the records of unlocked
\* months only (a change that moves a record into a locked month is a write
\* into that month and is skipped as well)
SkipAndContinue(rows) ==
    {IF \E w \in rows : w.id = r.id /\ ~is_locked(to_date(r.d)) /\ ~is_locked(w.date)
        THEN Applied(CHOOSE w \in rows : w.id = r.id, r)
        ELSE r : r \in records}

\* the table constraints hold for every row of recs
Admissible(recs) == \A r \in recs : RowOk(r) /\ KeyFree(recs, r)

\* C10: a batch update or batch delete over rows in locked and unlocked months
\* leaves every record of a locked month as it is, applies the change to every
\* record of an unlocked month (whenever the changed rows satisfy the table
\* constraints) and reports success.
C10_SkipAndContinue ==
    [][/\ (/\ last'.op = "save"
           /\ MixedBatch(Work0.rows)
           /\ Admissible(SkipAndContinue(Work0.rows))) =>
                (last'.ok /\ records' = SkipAndContinue(Work0.rows))
       /\ last'.op = "delete" =>
            \A ids \in SUBSET (1..MaxId) :
                (DeleteRows(ids) /\ MixedBatch({w \in Work0.rows : w.id \in ids})) =>
                    /\ last'.ok
                    /\ records' = {r \in records :
                                      r.id \notin ids \/ is_locked(to_date(r.d))}]_vars

\* C11: adding an employee leaves every record as it is; a successful
\* add_record gives the record of its key the team the roster holds for the
\* employee at that call and leaves every other record as it is.
C11_TeamSnapshot ==
    [][/\ last'.op = "add_member" => records' = records
       /\ (last'.op = "add_record" /\ last'.ret = "True") =>
            \A r \in records' :
                IF r.d = isoformat(last'.d) /\ r.emp_id = last'.emp_id
                THEN r.grp = RosterGrp(r.emp_id)
                ELSE r \in records]_vars

\* C11 witness: an employee was added while the table holds a record of
\* another employee
C11_Witness ==
    /\ last.op = "add_member"
    /\ last.ok
    /\ Cardinality(roster) = 2
    /\ records # {}

\* C12: add_record with an employee id that is not in the roster returns False
\* and leaves table records unchanged, for every date and points value.
C12_UnknownEmployee ==
    [][last'.op = "add_record" =>
            \A d \in Dates, e \in EmpIds, p \in PointInputs :
                (e \notin RosterIds /\ AddRecord(d, e, p))
                    => (last'.ret = "False" /\ records' = records /\ nextId' = nextId)]_vars

\* C12 witness: an add_record was refused for its employee id in an unlocked
\* month while the table holds records
C12_Witness ==
    /\ last.op = "add_record"
    /\ last.msg = "unknown"
    /\ records # {}

\* C13: lock_month and unlock_month never fail; locking a locked month and
\* unlocking an unlocked month change nothing; after lock_month the month is
\* locked and after unlock_month it is not; neither changes a record, the
\* roster or the lock of another month.
C13_LockUnlock ==
    [][last'.op \in {"lock_month", "unlock_month"} =>
            \A dt \in Dates :
                /\ LockMonth(dt) =>
                        /\ is_locked(dt)'
                        /\ is_locked(dt) => locks' = locks
                /\ UnlockMonth(dt) =>
                        /\ ~is_locked(dt)'
                        /\ ~is_locked(dt) => locks' = locks
                /\ (LockMonth(dt) \/ UnlockMonth(dt)) =>
                        /\ records' = records
                        /\ roster' = roster
                        /\ \A other \in Dates :
                                ym_of(other) # ym_of(dt) =>
                                    (is_locked(other)' <=> is_locked(other))]_vars

\* C13 witness: a locked month was locked again while another month is locked
\* and the table holds records
C13_Witness ==
    /\ last.op = "lock_month"
    /\ last.was
    /\ Cardinality(locks) = 2
    /\ records # {}

\* C14: an add_member_form submission whose trimmed id or name is in the
\* roster fails and leaves the roster unchanged; the ids of the roster are
\* pairwise distinct and so are its names.
C14_RosterUnique ==
    [][/\ \A a, b \in roster' : (a.emp_id = b.emp_id \/ a.name = b.name) => a = b
       /\ last'.op = "add_member" =>
            \A m \in MemberInputs :
                (/\ AddMember(m[1], m[2], m[3])
                 /\ \E q \in roster : q.emp_id = strip(m[1]) \/ q.name = strip(m[2]))
                    => (roster' = roster /\ ~last'.ok)]_vars

\* C14 witness: a submission was refused for a conflict with the roster
C14_Witness ==
    /\ last.op = "add_member"
    /\ last.msg = "conflict"
    /\ roster # {}

\* hand-made files whose rows meet the constraints of table records
GoodUploads == {read_csv(CsvOneRow), read_csv(CsvTwoRows)}

\* C15: a restore from a file whose rows meet the table constraints succeeds
\* although a row names an employee id that is not in the roster or a date in
\* a locked month, or the table holds a record of a locked month: every old
\* record is deleted and the parsed rows are inserted.
C15_ImportBypassesChecks ==
    [][(/\ last'.op = "import"
        /\ last'.df_new \in GoodUploads
        /\ \/ \E row \in ParsedRows(last'.df_new) :
                row.emp_id \notin RosterIds \/ is_locked(to_date(row.d))
           \/ \E r \in records : is_locked(to_date(r.d))) =>
            /\ last'.out = "done"
            /\ Fields(records') = ParsedRows(last'.df_new)
            /\ \A r \in records', q \in records : r.id # q.id]_vars

\* C15 witness: after a restore the table holds a record of a locked month
\* whose employee id is not in the roster
C15_Witness ==
    /\ last.op = "import"
    /\ last.out = "done"
    /\ \E r \in records : is_locked(to_date(r.d)) /\ r.emp_id \notin RosterIds

\* C16: add_record is three separate statements. Once its lock check has
\* passed, a lock_month(m) committed by another session before the write does
\* not stop it: the write succeeds and the record of month m is stored while m
\* is locked.
C16_LockRace ==
    [][(/\ pending # Idle
        /\ pending.pc = "write"
        /\ is_locked(pending.d)
        /\ pending.points >= 0
        /\ last'.op = "add_record")
       => /\ last'.ret = "True"
          /\ \E m \in {pending.d} : is_locked(m)'
          /\ \E r \in records' : /\ r.d = isoformat(pending.d)
                                  /\ r.emp_id = pending.emp_id
                                  /\ r.points = pending.points
                                  /\ r.grp = pending.grp]_vars

C16_Witness ==
    /\ last.op = "add_record"
    /\ last.ret = "True"
    /\ last.locked
    /\ is_locked(last.d)
    /\ \E r \in records : /\ r.d = isoformat(last.d)
                          /\ r.emp_id = last.emp_id
                          /\ r.points = last.points

\* the handlers of the settings page below the PIN gate
AdminOps ==
    {"add_member", "edit", "save", "delete", "lock_month", "unlock_month", "import",
     "reset_ask", "reset_confirm", "reset_cancel"}

\* C17: roster add, batch update, batch delete, lock and unlock, import-replace
\* and data reset run only in a session whose admin_ok is true; admin_ok turns
\* true only by a PIN attempt equal to ADMIN_PIN, and any other attempt leaves
\* it false.
C17_AdminGate ==
    [][/\ last'.op \in AdminOps => admin_ok
       /\ (roster' # roster \/ locks' # locks) => admin_ok
       /\ (records' # records /\ last'.op # "add_record") => admin_ok
       /\ (admin_ok' /\ ~admin_ok) => (last'.op = "login" /\ last'.pin = ADMIN_PIN)
       /\ (last'.op = "login" /\ last'.pin # ADMIN_PIN) => ~admin_ok']_vars

\* a roster and a month lock written by an administrator's session, then a
\* new session in which a wrong PIN was tried and refused
C17_Witness ==
    /\ last.op = "login"
    /\ last.pin # ADMIN_PIN
    /\ last.pin # Empty
    /\ ~admin_ok
    /\ locks # {}
    /\ roster # {}

\* C18: whether or not auto_backup_latest fails, a page load leaves the ledger
\* as it is and goes on, a restore ends with the result and the table its
\* transaction gave, and a reset ends with an empty table, its success message
\* and the confirmation flag cleared.
C18_BackupBestEffort ==
    [][/\ last'.op = "page_load" =>
            /\ last'.ok
            /\ <<records, roster, locks, nextId>>' = <<records, roster, locks, nextId>>
       /\ last'.op = "import" =>
            \E df_new \in {last'.df_new} :
                /\ last'.out = import_replace(df_new).out
                /\ records' = import_replace(df_new).recs
       /\ last'.op = "reset_confirm" =>
            /\ last'.ok
            /\ records' = {}
            /\ ~confirm_wipe']_vars

\* a restore went through although the backup after it failed: the slot does
\* not hold the restored table
C18_Witness ==
    /\ last.op = "import"
    /\ last.out = "done"
    /\ records # {}
    /\ backup.rows # records

\* the days the month helpers are asked about: the first, the 15th and the
\* last day of every month of a leap year and of the year after it
MonthDates ==
    {Date(y, m, dd) : y \in {2024, 2025}, m \in 1..12, dd \in {1, 15, 28}}
        \cup {Date(y, m, DaysInMonth(y, m)) : y \in {2024, 2025}, m \in 1..12}

\* C19: for every date the this-month interval starts on the first day of the
\* date's month and ends on the first day of the next month (1 January of
\* the next year for December), month_df queries that interval, and the
\* last-month interval is the whole month before, ending where the this-month
\* interval starts (starting on 1 December of the year before for January).
C19_MonthIntervals ==
    \A d \in MonthDates :
        LET tm == month_range(d)
            lm == prev_month_range(d)
        IN  /\ tm[1] = Date(d.year, d.month, 1)
            /\ tm[2].day = 1
            /\ toordinal(tm[2]) = toordinal(tm[1]) + DaysInMonth(d.year, d.month)
            /\ d.month = 12 => tm[2] = Date(d.year + 1, 1, 1)
            /\ NextMonthStart(d) = tm[2]
            /\ d \in TodayInputs => month_df(d) = query_range(tm[1], tm[2])
            /\ lm[2] = tm[1]
            /\ lm[1].day = 1
            /\ toordinal(lm[2]) = toordinal(lm[1]) + DaysInMonth(lm[1].year, lm[1].month)
            /\ d.month = 1 => lm[1] = Date(d.year - 1, 12, 1)

\* C19 witness: opened in January, the page showed last month's ranking for
\* December of the year before
C19_Witness ==
    /\ last.op = "ranking"
    /\ last.preset = "last_month"
    /\ today.month = 1
    /\ last.period = <<Date(today.year - 1, 12, 1), Date(today.year, 1, 1)>>
    /\ last.df_range # {}

\* C20: the team ranking drawn from a non-empty query result has one row for
\* each team label of the result, the row's total is the sum of the points of
\* the records with that label, and the totals do not increase down the table.
C20_TeamRanking ==
    [][(last'.op = "ranking" /\ last'.df_range # {}) =>
            \E tt \in {last'.team_totals}, df \in {last'.df_range} :
                /\ df = query_range(last'.period[1], last'.period[2])
                /\ \A g \in {r.grp : r \in df} :
                        \E i \in 1..Len(tt) :
                            /\ tt[i].team = g
                            /\ tt[i].total = SumPoints({r \in df : r.grp = g})
                            /\ \A j \in 1..Len(tt) : tt[j].team = g => j = i
                /\ \A i \in 1..Len(tt) : \E r \in df : r.grp = tt[i].team
                /\ \A i, j \in 1..Len(tt) : i < j => tt[i].total >= tt[j].total]_vars

\* C20 witness: a ranking of three teams, one of them with several records,
\* with different totals
C20_Witness ==
    /\ last.op = "ranking"
    /\ Len(last.team_totals) = 3
    /\ last.team_totals[1].total > last.team_totals[2].total
    /\ last.team_totals[2].total > last.team_totals[3].total
    /\ \E r, q \in last.df_range : r # q /\ r.grp = q.grp

\* the sum of column total over a set of per-person rows
RECURSIVE SumTotals(_)
SumTotals(S) ==
    IF S = {} THEN 0
    ELSE LET p == CHOOSE x \in S : TRUE IN p.total + SumTotals(S \ {p})

\* C21: on the ranking page every record of the query result, whether or not
\* its employee id is in the roster, is counted in the total of its (team,
\* employee) pair, so the per-employee totals of a team add up to the team's
\* total; the list of a team has at most 3 employees and nobody left out of
\* it has a higher total than somebody in it.
C21_PerPersonTotals ==
    [][(last'.op = "ranking" /\ last'.df_range # {}) =>
            \E df \in {last'.df_range}, pp \in {last'.per_person},
               lists \in {last'.top3} :
                /\ \A r \in df :
                        \E p \in pp :
                            /\ p.team = r.grp
                            /\ p.emp_id = r.emp_id
                            /\ p.total = SumPoints({q \in df : q.grp = r.grp
                                                            /\ q.emp_id = r.emp_id})
                /\ \A g \in {r.grp : r \in df} :
                        /\ SumTotals({p \in pp : p.team = g})
                                = SumPoints({r \in df : r.grp = g})
                        /\ g \in DOMAIN lists
                        /\ Len(lists[g]) <= 3
                        /\ \A p \in pp :
                                (p.team = g /\ \A i \in 1..Len(lists[g]) : lists[g][i] # p)
                                    => \A i \in 1..Len(lists[g]) :
                                            lists[g][i].total >= p.total]_vars

\* the work table holds a row with negative points whose UPDATE is not
\* skipped for a lock
NegativeRow(rows) ==
    \E w \in rows, r \in records : w.id = r.id /\ ~is_locked(w.date) /\ w.points < 0

\* C22: a batch update in which an UPDATE raises (a negative points value, or
\* a key another record holds) reports the error and leaves table records as
\* it was before the save: no row of the batch is applied.
C22_BatchRollback ==
    [][last'.op = "save" =>
            /\ ~last'.ok => records' = records
            /\ NegativeRow(Work0.rows) => (~last'.ok /\ records' = records)]_vars

\* C22 witness: a save failed and a row of the same batch whose change meets
\* the table constraints is not in the ledger
C22_Witness ==
    /\ last.op = "save"
    /\ ~last.ok
    /\ \E w \in records_work.rows, r \in records :
            /\ w.id = r.id
            /\ ~is_locked(w.date)
            /\ Applied(w, r) # r
            /\ RowOk(Applied(w, r))
            /\ KeyFree(records, Applied(w, r))

\* the records of recs with the key (d, emp_id)
WithKey(recs, d, emp_id) == {r \in recs : r.d = isoformat(d) /\ r.emp_id = emp_id}

\* C23: when two handlers run add_record at the same time, whatever the order
\* of their SELECTs and writes, after a handler has written the table holds
\* exactly one record for its (date, employee) key; a handler whose SELECT
\* saw no record and whose INSERT comes after the other's fails and the table
\* stays as it is.
C23_OneRecordPerKey ==
    [][last'.op = "add_record_store" =>
            \E d \in {last'.d}, e \in {last'.emp_id} :
                /\ Cardinality(WithKey(records', d, e)) = 1
                /\ last'.lost => (last'.ret = "raise" /\ records' = records)
                /\ ~last'.lost => last'.ret = "True"
                /\ \A r, q \in records' :
                        (r.d = q.d /\ r.emp_id = q.emp_id) => r = q]_vars

\* C23 witness: both handlers saw no record for the key, one inserted it and
\* the insert of the other failed
C23_Witness ==
    /\ last.op = "add_record_store"
    /\ last.lost
    /\ last.ret = "raise"
    /\ Cardinality(WithKey(records, last.d, last.emp_id)) = 1

\* C24: the confirm button deletes the records only in a session whose
\* confirm_wipe is true; confirm_wipe turns true only by the reset button,
\* which deletes nothing; cancel turns it false and deletes nothing; a
\* completed reset leaves table records empty, the roster and the month locks
\* as they were, and confirm_wipe false.
C24_TwoStepReset ==
    [][/\ last'.op = "reset_confirm" =>
            /\ confirm_wipe
            /\ records' = {}
            /\ roster' = roster
            /\ locks' = locks
            /\ ~confirm_wipe'
       /\ (confirm_wipe' /\ ~confirm_wipe) =>
            (last'.op = "reset_ask" /\ records' = records)
       /\ last'.op = "reset_ask" => (confirm_wipe' /\ records' = records)
       /\ last'.op = "reset_cancel" =>
            /\ confirm_wipe
            /\ ~confirm_wipe'
            /\ <<records, roster, locks>>' = <<records, roster, locks>>]_vars

\* C24 witness: a reset was completed in a session that had this month's
\* records in its editor, with a roster and a locked month in the database
C24_Witness ==
    /\ last.op = "reset_confirm"
    /\ records = {}
    /\ records_work.rows # {}
    /\ nextId > 1
    /\ roster # {}
    /\ locks # {}
    /\ ~confirm_wipe

=============================================================================
